---- MODULE Spec2Model ----
(***************************************************************************)
(* CAMPS: batch normalisation of a tree of audio files to MP3 at one       *)
(* bitrate (src/camps_mt.py, with src/camps_legacy.py as the sequential     *)
(* predecessor).  The model follows camps_mt.py: process_directory walks    *)
(* the tree, maps process_file over the files on a process pool, collects   *)
(* the results and reduces them to a summary.  The filesystem, the          *)
(* transcoder (pydub), the tag library (mutagen) and the webhook are the    *)
(* environment: their results are inputs, drawn from small sets.            *)
(***************************************************************************)
EXTENDS Integers, Sequences, FiniteSets, TLC

\* ------------------------------------------------------------- configuration

desired_bitrate == 256

SUPPORTED_EXTENSIONS ==
    {".wav", ".flac", ".ogg", ".aac", ".m4a", ".wma", ".alac", ".aiff", ".mp3"}

\* ------------------------------------------------------------------- bounds

\* Worker processes of the pool (os.cpu_count() on the machine).
NumWorkers == 2
\* Files in the input tree.
MaxFiles == 2
\* Consecutive runs of process_directory over the same tree.
MaxPasses == 2

\* ------------------------------------------------------------ paths, names

\* A file name is a sequence of tokens; the token SEP is the text " - ", every
\* other token is text without it.  A path is a stem (the name without its
\* extension) and an extension, as os.path.splitext splits it.
SEP == " - "

Name == <<"A", SEP, "T", SEP, "X">>

P_flac == [stem |-> Name, ext |-> ".flac"]
P_WAV  == [stem |-> Name, ext |-> ".WAV"]
P_mp3  == [stem |-> Name, ext |-> ".mp3"]
P_ogg  == [stem |-> <<"n">>, ext |-> ".ogg"]
P_txt  == [stem |-> <<"n">>, ext |-> ".txt"]

Paths == {P_flac, P_WAV, P_mp3, P_ogg, P_txt}

\* str.lower() on the extensions of the model.
Lower(ext) ==
    CASE ext = ".WAV" -> ".wav"
      [] ext = ".MP3" -> ".mp3"
      [] OTHER        -> ext

\* os.path.splitext(input_path)[0] + ".mp3"
NewPath(p) == [stem |-> p.stem, ext |-> ".mp3"]

P_nmp3 == NewPath(P_ogg)

\* Every path a run can find a file at: the tree's and the converted files'.
AllPaths ==
    Paths \cup {NewPath(p) : p \in {q \in Paths : Lower(q.ext) \in SUPPORTED_EXTENSIONS}}

\* The order in which os.walk lists the files of the tree.
WalkOrder == <<P_mp3, P_flac, P_WAV, P_nmp3, P_ogg, P_txt>>

\* " - " in name
HasSep(name) == \E i \in 1..Len(name) : name[i] = SEP

FirstSep(name) == CHOOSE i \in 1..Len(name) :
                     /\ name[i] = SEP
                     /\ \A j \in 1..(i - 1) : name[j] # SEP

\* name.split(" - ", 1): the text before the first " - " and the text after it.
SplitName(name) ==
    [artist |-> SubSeq(name, 1, FirstSep(name) - 1),
     title  |-> SubSeq(name, FirstSep(name) + 1, Len(name))]

\* ------------------------------------------------------------------- files

\* A file: whose audio it holds, whether the transcoder produced it, whether
\* the transcoder can decode it, what mutagen.File makes of it ("ok": an
\* object with info and tags, "nobitrate": an object whose info has no
\* bitrate, "raise": an exception, "none": None), bitrate in bits per second,
\* two tags, size, owner, group, permission bits.  committed marks the
\* result of a conversion that ran to its end.
NoFile ==
    [exists |-> FALSE, audio |-> "", enc |-> FALSE, committed |-> FALSE,
     decodable |-> FALSE,
     meta |-> "none", bps |-> 0, artist |-> <<>>, title |-> <<>>, size |-> 0,
     uid |-> "", gid |-> "", mode |-> ""]

Src(audio, decodable, meta, bps, artist, title, size, uid, gid, mode) ==
    [exists |-> TRUE, audio |-> audio, enc |-> FALSE, committed |-> FALSE,
     decodable |-> decodable,
     meta |-> meta, bps |-> bps, artist |-> artist, title |-> title,
     size |-> size, uid |-> uid, gid |-> gid, mode |-> mode]

\* What each path of the tree may hold before the first run.
Variants(p) ==
    CASE p = P_flac ->
           {Src("flac", TRUE, "ok", 900000, <<"X">>, <<"Y">>, 5, "alice", "staff", "0644"),
            Src("flac", FALSE, "raise", 0, <<>>, <<>>, 5, "alice", "staff", "0644")}
      [] p = P_WAV ->
           {Src("wav", TRUE, "none", 0, <<>>, <<>>, 4, "bob", "users", "0444"),
            Src("wav", TRUE, "raise", 0, <<>>, <<>>, 6, "bob", "users", "0444")}
      [] p = P_mp3 ->
           {Src("mp3", TRUE, "ok", 256000, <<"X">>, <<"Y">>, 4, "carol", "staff", "0600"),
            Src("mp3", TRUE, "ok", 256000, <<>>, <<"Y">>, 4, "carol", "staff", "0600"),
            Src("mp3", TRUE, "ok", 320000, <<"X">>, <<"Y">>, 5, "carol", "staff", "0600"),
            Src("mp3", TRUE, "ok", 999, <<"X">>, <<"Y">>, 1, "carol", "staff", "0600"),
            Src("mp3", FALSE, "raise", 0, <<>>, <<>>, 4, "carol", "staff", "0600"),
            Src("mp3", TRUE, "nobitrate", 0, <<"X">>, <<>>, 6, "carol", "staff", "0600")}
      [] p = P_ogg ->
           {Src("ogg", TRUE, "raise", 0, <<>>, <<>>, 6, "erin", "users", "0664"),
            Src("ogg", TRUE, "ok", 96000, <<"X">>, <<>>, 3, "erin", "users", "0664")}
      [] OTHER ->
           {Src("txt", FALSE, "none", 0, <<>>, <<>>, 1, "alice", "staff", "0644")}

AllVariants == UNION {Variants(p) : p \in Paths}

TreesOn(S) ==
    {[p \in AllPaths |-> IF p \in S THEN f[p] ELSE NoFile] :
        f \in {g \in [S -> AllVariants] : \A p \in S : g[p] \in Variants(p)}}

Trees ==
    UNION {TreesOn(S) :
             S \in {T \in SUBSET Paths : Cardinality(T) \in 1..MaxFiles}}

\* The size of the encoder's output: a fixed number of bytes per second of
\* audio, which the model takes as the same for every source.  The sources'
\* sizes lie on both sides of it.
EncodedSize(f) == IF f.exists THEN 4 ELSE 0

\* What the webhook may answer to one request.
SendResults == {"200", "non200", "raise"}

\* ------------------------------------------------------------------- state

VARIABLES
    fs,                 \* the filesystem: path -> file
    fs0,                \* the tree as the current run's walk found it
    pass,               \* which run of process_directory this is
    pc_main,            \* where process_directory is
    files_to_process,   \* the walk's list
    tasks,              \* path -> the process_file call on it
    results,            \* the list the map's results were collected into
    converted_count,
    total_space_saved,
    summaries,          \* summary notifications sent by this run
    final_lines,        \* final lines printed by this run
    summary_answer      \* what the webhook answered to the summary ("-": not sent)

vars == <<fs, fs0, pass, pc_main, files_to_process, tasks, results,
          converted_count, total_space_saved, summaries, final_lines,
          summary_answer>>

None == [none |-> TRUE, val |-> 0]
Some(v) == [none |-> FALSE, val |-> v]

\* A process_file call: its place in the pool (status), its place in
\* convert_to_mp3 (pc), how it ended (end), what it returned (ret), the
\* locals of convert_to_mp3, its scratch file (temp), and a record of what it
\* did: the file it found (seen), the bitrate it read, whether it called the
\* transcoder, the notifications it sent, the
\* step of convert_to_mp3 whose exception ended it (failed_at), and whether
\* its commit ended with a copy of the audio on the tree.
IdleTask ==
    [status |-> "none", pc |-> "-", end |-> "none", ret |-> 0,
     seen |-> NoFile, bitrate |-> None, invoked |-> FALSE, audio |-> "",
     original_uid |-> "", original_gid |-> "", original_permissions |-> "",
     original_size |-> 0, new_size |-> 0, temp |-> NoFile,
     errors |-> 0, estimated |-> 0, not_estimated |-> 0,
     failed_at |-> "-", copy_kept |-> TRUE]

Running == {p \in AllPaths : tasks[p].status = "running"}
Queued  == {p \in AllPaths : tasks[p].status = "queued"}

Init ==
    /\ fs \in Trees
    /\ fs0 = fs
    /\ pass = 1
    /\ pc_main = "walk"
    /\ files_to_process = <<>>
    /\ tasks = [p \in AllPaths |-> IdleTask]
    /\ results = <<>>
    /\ converted_count = 0
    /\ total_space_saved = 0
    /\ summaries = 0
    /\ final_lines = 0
    /\ summary_answer = "-"


\* ------------------------------------------------- notifications, the sink

\* A variant without the try block: an exception of the request leaves it.
send_slack_message_unguarded(r) ==
    IF r = "raise" THEN "raised" ELSE "returned"

\* send_slack_message: the request's result is caught and logged, whatever
\* it is; the call returns to its caller ("returned") every time.
send_slack_message(r) ==
    CASE r = "200"    -> "returned"
      [] r = "non200" -> "returned"
      [] OTHER        -> "returned"

\* The answers to draw from for a call that sends a message of `kind`.
Answers(kind) == IF kind = "none" THEN {"200"} ELSE SendResults

\* A task whose call has returned `ret`.
Returned(t, end, ret) ==
    [t EXCEPT !.status = "returned", !.pc = "-", !.end = end, !.ret = ret]

\* A task whose call has raised out of process_file.
Raised(t) == [t EXCEPT !.status = "raised", !.pc = "-", !.end = "raised"]

\* Task t after it has called send_slack_message with a message of `kind`
\* and the sink has answered r.
Sent(t, kind, r) ==
    LET counted ==
          CASE kind = "error"         -> [t EXCEPT !.errors = @ + 1]
            [] kind = "estimated"     -> [t EXCEPT !.estimated = @ + 1]
            [] kind = "not_estimated" -> [t EXCEPT !.not_estimated = @ + 1]
            [] OTHER -> t
    IN  IF kind # "none" /\ send_slack_message(r) # "returned"
        THEN Raised(counted)
        ELSE counted

\* ------------------------------------------------------------ process_file

\* get_mp3_bitrate: int(audio.info.bitrate / 1000), or None when mutagen
\* raises, returns None or gives an info without a bitrate.
get_mp3_bitrate(f) ==
    IF f.exists /\ f.meta = "ok" THEN Some(f.bps \div 1000) ELSE None

\* Python's truth value of a bitrate: None and 0 are false.
Truthy(b) == ~b.none /\ b.val # 0

\* bitrate == desired_bitrate or (bitrate and bitrate < desired_bitrate)
NoConversionNeeded(b) ==
    \/ (~b.none /\ b.val = desired_bitrate)
    \/ (Truthy(b) /\ b.val < desired_bitrate)

\* mutagen.File(file_path, easy=True) gives an object whose tags can be read.
EasyReadable(f) == f.exists /\ f.meta \in {"ok", "nobitrate"}

\* The fields the pre-check writes from the file name: each only when empty.
FillEmpty(f, name) ==
    [f EXCEPT !.artist = IF @ = <<>> THEN SplitName(name).artist ELSE @,
              !.title  = IF @ = <<>> THEN SplitName(name).title ELSE @]

\* The pre-check of an .mp3 (the tag estimate of process_file): what is left
\* of the file, which notification is sent, and whether an exception leaves
\* process_file (the tag read and the save are in no try block).
PreCheck(f, name, saveOk) ==
    IF ~EasyReadable(f)
    THEN [raised |-> TRUE, file |-> f, note |-> "none"]
    ELSE IF f.artist # <<>> /\ f.title # <<>>
    THEN [raised |-> FALSE, file |-> f, note |-> "none"]
    ELSE IF HasSep(name)
    THEN IF saveOk
         THEN [raised |-> FALSE, file |-> FillEmpty(f, name), note |-> "estimated"]
         ELSE [raised |-> TRUE, file |-> f, note |-> "none"]
    ELSE [raised |-> FALSE, file |-> f, note |-> "not_estimated"]

\* A worker takes the queued call on p and runs process_file up to its
\* return or its call of convert_to_mp3.
ProcessFile(p) ==
    /\ pc_main \in {"map", "shutdown"}
    /\ tasks[p].status = "queued"
    /\ Cardinality(Running) < NumWorkers
    /\ \E saveOk \in BOOLEAN :
       \E r \in Answers(PreCheck(fs[p], p.stem, saveOk).note) :
         LET t0  == [tasks[p] EXCEPT !.status = "running", !.seen = fs[p]]
             ext == Lower(p.ext)
             pre == PreCheck(fs[p], p.stem, saveOk)
             b   == get_mp3_bitrate(fs[p])
             t1  == Sent([t0 EXCEPT !.bitrate = b], pre.note, r)
         IN  IF ext \notin SUPPORTED_EXTENSIONS
             THEN /\ tasks' = [tasks EXCEPT ![p] = Returned(t0, "skipped", 0)]
                  /\ fs' = fs
             ELSE IF ext # ".mp3"
             THEN /\ tasks' = [tasks EXCEPT ![p] = [t0 EXCEPT !.pc = "transcode"]]
                  /\ fs' = fs
             ELSE IF pre.raised
             THEN /\ tasks' = [tasks EXCEPT ![p] = Raised([t0 EXCEPT !.bitrate = b])]
                  /\ fs' = fs
             ELSE /\ fs' = [fs EXCEPT ![p] = pre.file]
                  /\ tasks' = [tasks EXCEPT ![p] =
                       IF t1.status = "raised" THEN t1
                       ELSE IF NoConversionNeeded(b)
                       THEN Returned(t1, "skipped", 0)
                       ELSE [t1 EXCEPT !.pc = "transcode"]]
    /\ UNCHANGED <<fs0, pass, pc_main, files_to_process, results,
                   converted_count, total_space_saved, summaries, final_lines,
                   summary_answer>>

\* ---------------------------------------------------------- convert_to_mp3

\* The encoder's output in the system's temporary directory: the source's
\* audio at the desired bitrate, owned by the converting process.
Artifact(f) ==
    [exists |-> TRUE, audio |-> f.audio, enc |-> TRUE, committed |-> FALSE,
     decodable |-> TRUE,
     meta |-> "ok", bps |-> desired_bitrate * 1000, artist |-> <<>>,
     title |-> <<>>, size |-> EncodedSize(f), uid |-> "camps", gid |-> "camps",
     mode |-> "0600"]

\* The temporary file as NamedTemporaryFile leaves it, before the export.
EmptyTemp ==
    [Artifact(NoFile) EXCEPT !.decodable = FALSE, !.meta = "none", !.bps = 0]

\* A copy of the audio that task t loaded is at its source path or at the
\* path it converts to.
CopyKept(files, p, audio) ==
    \/ (files[p].exists /\ files[p].audio = audio)
    \/ (files[NewPath(p)].exists /\ files[NewPath(p)].audio = audio)

\* The except branch of convert_to_mp3: the error is printed and sent, and
\* the call returns 0.  The scratch file stays where it is.
Failed(t, r) ==
    LET s == Sent(t, "error", r)
    IN  IF s.status = "raised" THEN s ELSE Returned(s, "failed", 0)

Task(p, at) == tasks[p].status = "running" /\ tasks[p].pc = at

\* mutagen.File(input_path) in convert_to_mp3: an object, None or an exception.
SourceTags(f) ==
    IF f.exists /\ f.meta \in {"ok", "nobitrate"} THEN "object"
    ELSE IF f.exists /\ f.meta = "none" THEN "none"
    ELSE "raise"

\* The truth value of a mutagen object: false when it holds no tag.
HasTags(f) == f.artist # <<>> \/ f.title # <<>>

\* new_metadata.update(original_metadata): the source's tags over the artifact's.
UpdateTags(art, src) ==
    [art EXCEPT !.artist = IF src.artist # <<>> THEN src.artist ELSE @,
                !.title  = IF src.title # <<>> THEN src.title ELSE @]

\* A variant of the handler that leaves the artifact as saved and sends
\* nothing, whatever the name is.
RecoverSilent(bound, mem, disk, name, recOk) ==
    [failed |-> FALSE, note |-> "none", art |-> disk]

\* The handler of a metadata error.  `bound` says whether new_metadata was
\* assigned before the error (it is not when reading the source's tags
\* raised); mem is new_metadata in memory, disk the scratch file as saved.
\* With " - " in the name both fields are assigned from it and saved; an
\* error in that leaves the handler and fails the conversion.
Recover(bound, mem, disk, name, recOk) ==
    IF HasSep(name)
    THEN IF bound /\ recOk
         THEN [failed |-> FALSE, note |-> "estimated",
               art |-> [mem EXCEPT !.artist = SplitName(name).artist,
                                   !.title = SplitName(name).title]]
         ELSE [failed |-> TRUE, note |-> "none", art |-> disk]
    ELSE [failed |-> FALSE, note |-> "not_estimated", art |-> disk]

\* The metadata block of convert_to_mp3.  fault names the tag operation that
\* raises in the try block, if any; recOk whether the handler's own writes work.
copy_metadata(src, art, name, fault, recOk) ==
    IF SourceTags(src) = "raise"
    THEN Recover(FALSE, art, art, name, recOk)
    ELSE IF SourceTags(src) = "none" \/ ~HasTags(src)
    THEN [failed |-> FALSE, note |-> "none", art |-> art]
    ELSE IF fault = "update"
    THEN Recover(TRUE, art, art, name, recOk)
    ELSE IF fault = "save"
    THEN Recover(TRUE, UpdateTags(art, src), art, name, recOk)
    ELSE [failed |-> FALSE, note |-> "none", art |-> UpdateTags(art, src)]

\* convert_to_mp3 up to the commit: load the source, stat it, create the
\* scratch file, export, measure, copy the metadata.  All of it reads the
\* source and writes the task's own scratch file.  exportOk says whether the
\* export works, fault and recOk what the tag operations do.
Transcode(p) ==
    /\ Task(p, "transcode")
    /\ LET f == fs[p]
           readable == f.exists /\ f.decodable
           tagged == SourceTags(f) = "object" /\ HasTags(f)
       IN  \E exportOk \in IF readable THEN BOOLEAN ELSE {TRUE} :
           \E fault \in IF readable /\ exportOk /\ tagged
                        THEN {"none", "update", "save"} ELSE {"none"} :
           \E recOk \in IF fault # "none" /\ HasSep(p.stem) THEN BOOLEAN ELSE {TRUE} :
             LET t == [tasks[p] EXCEPT !.invoked = TRUE]
                 loaded == [t EXCEPT !.audio = f.audio,
                                     !.original_uid = f.uid,
                                     !.original_gid = f.gid,
                                     !.original_permissions = f.mode,
                                     !.original_size = f.size,
                                     !.new_size = EncodedSize(f),
                                     !.temp = Artifact(f)]
                 m == copy_metadata(f, Artifact(f), p.stem, fault, recOk)
                 fails == ~readable \/ ~exportOk \/ m.failed
             IN  \E r \in Answers(IF fails THEN "error" ELSE m.note) :
                   tasks' = [tasks EXCEPT ![p] =
                     IF ~readable
                     THEN Failed([t EXCEPT !.failed_at = "load"], r)
                     ELSE IF ~exportOk
                     THEN Failed([t EXCEPT !.temp = EmptyTemp,
                                           !.failed_at = "export"], r)
                     ELSE IF m.failed
                     THEN Failed([loaded EXCEPT !.failed_at = "metadata"], r)
                     ELSE IF Sent(loaded, m.note, r).status = "raised"
                     THEN Failed([loaded EXCEPT !.estimated =
                                     Sent(loaded, m.note, r).estimated,
                                   !.not_estimated =
                                     Sent(loaded, m.note, r).not_estimated], r)
                     ELSE [Sent(loaded, m.note, r) EXCEPT !.pc = "move", !.temp = m.art]]
    /\ UNCHANGED <<fs, fs0, pass, pc_main, files_to_process, results,
                   converted_count, total_space_saved, summaries, final_lines,
                   summary_answer>>

\* A commit step of task p that raised: the except branch, with a note of
\* whether a copy of the audio is left on the tree.
FailedCommit(p, r) ==
    Failed([tasks[p] EXCEPT !.copy_kept = CopyKept(fs, p, tasks[p].audio),
                            !.failed_at = tasks[p].pc], r)

\* shutil.move(temp_output_path, new_path)
Move(p) ==
    /\ Task(p, "move")
    /\ \E ok \in BOOLEAN : \E r \in Answers(IF ok THEN "none" ELSE "error") :
         IF ok
         THEN /\ fs' = [fs EXCEPT ![NewPath(p)] = tasks[p].temp]
              /\ tasks' = [tasks EXCEPT ![p].pc = "chmod", ![p].temp = NoFile]
         ELSE /\ fs' = fs
              /\ tasks' = [tasks EXCEPT ![p] = FailedCommit(p, r)]
    /\ UNCHANGED <<fs0, pass, pc_main, files_to_process, results,
                   converted_count, total_space_saved, summaries, final_lines,
                   summary_answer>>

\* os.chmod(new_path, original_permissions)
Chmod(p) ==
    /\ Task(p, "chmod")
    /\ \E ok \in BOOLEAN : \E r \in Answers(IF ok THEN "none" ELSE "error") :
         IF ok /\ fs[NewPath(p)].exists
         THEN /\ fs' = [fs EXCEPT ![NewPath(p)].mode = tasks[p].original_permissions]
              /\ tasks' = [tasks EXCEPT ![p].pc = "chown"]
         ELSE /\ fs' = fs
              /\ tasks' = [tasks EXCEPT ![p] = FailedCommit(p, r)]
    /\ UNCHANGED <<fs0, pass, pc_main, files_to_process, results,
                   converted_count, total_space_saved, summaries, final_lines,
                   summary_answer>>

\* os.chown(new_path, original_stat.st_uid, original_stat.st_gid)
Chown(p) ==
    /\ Task(p, "chown")
    /\ \E ok \in BOOLEAN : \E r \in Answers(IF ok THEN "none" ELSE "error") :
         IF ok /\ fs[NewPath(p)].exists
         THEN /\ fs' = [fs EXCEPT ![NewPath(p)].uid = tasks[p].original_uid,
                                  ![NewPath(p)].gid = tasks[p].original_gid]
              /\ tasks' = [tasks EXCEPT ![p].pc = "remove"]
         ELSE /\ fs' = fs
              /\ tasks' = [tasks EXCEPT ![p] = FailedCommit(p, r)]
    /\ UNCHANGED <<fs0, pass, pc_main, files_to_process, results,
                   converted_count, total_space_saved, summaries, final_lines,
                   summary_answer>>

\* if input_path != new_path: os.remove(input_path); then the call returns
\* original_size - new_size.
Remove(p) ==
    /\ Task(p, "remove")
    /\ \E ok \in BOOLEAN : \E r \in Answers(IF ok THEN "none" ELSE "error") :
         LET t == tasks[p]
             gone == IF p = NewPath(p) THEN fs ELSE [fs EXCEPT ![p] = NoFile]
             removed == [gone EXCEPT ![NewPath(p)].committed =
                           @ \/ (gone[NewPath(p)].enc /\ gone[NewPath(p)].audio = t.audio)]
         IN  IF p = NewPath(p) \/ (ok /\ fs[p].exists)
             THEN /\ fs' = removed
                  /\ tasks' = [tasks EXCEPT ![p] =
                       Returned([t EXCEPT !.copy_kept = CopyKept(removed, p, t.audio)],
                                "converted", t.original_size - t.new_size)]
             ELSE /\ fs' = fs
                  /\ tasks' = [tasks EXCEPT ![p] = FailedCommit(p, r)]
    /\ UNCHANGED <<fs0, pass, pc_main, files_to_process, results,
                   converted_count, total_space_saved, summaries, final_lines,
                   summary_answer>>

\* ------------------------------------------------------- process_directory

\* The files of the tree, in the walk's order.
Walked(tree) == SelectSeq(WalkOrder, LAMBDA p : tree[p].exists)

\* os.walk, then the submission of one process_file call per file.
Walk ==
    /\ pc_main = "walk"
    /\ files_to_process' = Walked(fs)
    /\ tasks' = [p \in AllPaths |->
                   IF fs[p].exists THEN [IdleTask EXCEPT !.status = "queued"]
                   ELSE IdleTask]
    /\ fs0' = fs
    /\ pc_main' = "map"
    /\ UNCHANGED <<fs, pass, results, converted_count,
                   total_space_saved, summaries, final_lines,
                   summary_answer>>

\* A variant that takes every future as done: with it the map would hand over
\* results before the calls have ended.
FutureDoneEarly(t) == TRUE

\* A future the map's iterator can take the result of.
FutureDone(t) == t.status \in {"returned", "raised"}

Future(i) == tasks[files_to_process[i]]

\* list(executor.map(...)): the iterator yields the results in the order of
\* submission, waiting for each; the list is complete when it has yielded
\* them all.
Collect ==
    /\ pc_main = "map"
    /\ \A i \in 1..Len(files_to_process) :
          FutureDone(Future(i)) /\ Future(i).status # "raised"
    /\ results' = [i \in 1..Len(files_to_process) |-> Future(i).ret]
    /\ pc_main' = "exit"
    /\ UNCHANGED <<fs, fs0, pass, files_to_process, tasks, converted_count,
                   total_space_saved, summaries, final_lines,
                   summary_answer>>

\* The result of a call that raised is its exception, raised again by the
\* iterator when it comes to it: it leaves the with block and the function.
Abort ==
    /\ pc_main = "map"
    /\ \E i \in 1..Len(files_to_process) :
          /\ Future(i).status = "raised"
          /\ \A j \in 1..(i - 1) : FutureDone(Future(j))
    /\ pc_main' = "shutdown"
    /\ UNCHANGED <<fs, fs0, pass, files_to_process, tasks, results,
                   converted_count, total_space_saved, summaries, final_lines,
                   summary_answer>>

\* The iterator cancels the calls that no worker has taken yet.
Cancel(p) ==
    /\ pc_main = "shutdown"
    /\ tasks[p].status = "queued"
    /\ tasks' = [tasks EXCEPT ![p].status = "cancelled"]
    /\ UNCHANGED <<fs, fs0, pass, pc_main, files_to_process, results,
                   converted_count, total_space_saved, summaries, final_lines,
                   summary_answer>>

\* The with block's exit after an exception: the pool is shut down once the
\* calls in flight have ended, and the exception leaves process_directory.
Shutdown ==
    /\ pc_main = "shutdown"
    /\ Running = {} /\ Queued = {}
    /\ pc_main' = "aborted"
    /\ UNCHANGED <<fs, fs0, pass, files_to_process, tasks, results,
                   converted_count, total_space_saved, summaries, final_lines,
                   summary_answer>>

\* The with block's exit once the list is complete: the pool is shut down
\* once no call is queued or in flight.
Exit ==
    /\ pc_main = "exit"
    /\ Running = {} /\ Queued = {}
    /\ pc_main' = "reduce"
    /\ UNCHANGED <<fs, fs0, pass, files_to_process, tasks, results,
                   converted_count, total_space_saved, summaries, final_lines,
                   summary_answer>>

\* A variant that counts every return value, also zero and negative ones.
IsCountedAlways(space_saved) == TRUE

\* if space_saved > 0
IsCounted(space_saved) == space_saved > 0

\* The loop over the results: [count, total] after the first n of them.
RECURSIVE Reduce(_, _)
Reduce(rs, n) ==
    IF n = 0 THEN [count |-> 0, total |-> 0]
    ELSE LET acc == Reduce(rs, n - 1)
         IN  IF IsCounted(rs[n])
             THEN [count |-> acc.count + 1, total |-> acc.total + rs[n]]
             ELSE acc

\* if converted_count > 0
SummaryDue(count) == count > 0

\* The reduction, the summary notification and the final line.
Summarize ==
    /\ pc_main = "reduce"
    /\ LET sum == Reduce(results, Len(results))
       IN  /\ converted_count' = sum.count
           /\ total_space_saved' = sum.total
           /\ \E r \in Answers(IF SummaryDue(sum.count) THEN "summary" ELSE "none") :
                /\ summaries' = IF SummaryDue(sum.count) /\ send_slack_message(r) = "returned"
                                THEN summaries + 1 ELSE summaries
                /\ summary_answer' = IF SummaryDue(sum.count) THEN r ELSE "-"
    /\ final_lines' = final_lines + 1
    /\ pc_main' = "done"
    /\ UNCHANGED <<fs, fs0, pass, files_to_process, tasks, results>>

\* process_directory is run again on the tree the last run left.
Rerun ==
    /\ pc_main \in {"done", "aborted"}
    /\ pass < MaxPasses
    /\ pass' = pass + 1
    /\ pc_main' = "walk"
    /\ files_to_process' = <<>>
    /\ tasks' = [p \in AllPaths |-> IdleTask]
    /\ results' = <<>>
    /\ converted_count' = 0
    /\ total_space_saved' = 0
    /\ summaries' = 0
    /\ final_lines' = 0
    /\ summary_answer' = "-"
    /\ fs0' = fs
    /\ UNCHANGED fs

Next ==
    \/ Walk
    \/ \E p \in AllPaths : ProcessFile(p)
    \/ \E p \in AllPaths : Transcode(p)
    \/ \E p \in AllPaths : Move(p)
    \/ \E p \in AllPaths : Chmod(p)
    \/ \E p \in AllPaths : Chown(p)
    \/ \E p \in AllPaths : Remove(p)
    \/ Collect
    \/ Abort
    \/ \E p \in AllPaths : Cancel(p)
    \/ Shutdown
    \/ Exit
    \/ Summarize

\* One run of process_directory on each tree.
Spec == Init /\ [][Next]_vars

\* Runs of process_directory one after the other on a tree of one file.
InitOne == Init /\ Cardinality({p \in AllPaths : fs[p].exists}) = 1

NextTwice == Next \/ Rerun

SpecTwice == InitOne /\ [][NextTwice]_vars


\* ------------------------------------------------------------------ claims

\* The files the current run found, and the calls that ended each way.
Found == {p \in AllPaths : fs0[p].exists}

Ended(end) == {p \in Found : tasks[p].end = end}

Max0(n) == IF n > 0 THEN n ELSE 0

\* The sum over the calls on S of max(0, original size - new size).
RECURSIVE ClampedSaving(_)
ClampedSaving(S) ==
    IF S = {} THEN 0
    ELSE LET p == CHOOSE x \in S : TRUE
         IN  Max0(tasks[p].original_size - tasks[p].new_size)
               + ClampedSaving(S \ {p})

\* The sum over the calls on S of what each returned, when that is positive.
RECURSIVE PositiveReturns(_)
PositiveReturns(S) ==
    IF S = {} THEN 0
    ELSE LET p == CHOOSE x \in S : TRUE
         IN  Max0(tasks[p].ret) + PositiveReturns(S \ {p})

\* A call that has started: a worker has taken it.
Started(p) == tasks[p].status \in {"running", "returned", "raised"}

\* A call that is inside convert_to_mp3.
Converting(p) == tasks[p].status = "running"

\* C1: a failure confined to one file never aborts the batch: no run of
\* process_directory ends in an exception instead of the final summary line,
\* and no file's call is cancelled before it ran.
C1_FailureNeverAbortsBatch ==
    /\ pc_main \notin {"shutdown", "aborted"}
    /\ \A p \in AllPaths : tasks[p].status # "cancelled"

\* C2: when the summary is computed, converted_count is the number of calls
\* that ended Converted (transcoded and committed), also those whose new file
\* is no smaller than the original.
C2_CountIsConverted ==
    pc_main = "done" => converted_count = Cardinality(Ended("converted"))

\* C3: when the summary is computed, total_space_saved is the sum over the
\* Converted calls of max(0, originalSize - newSize): a converted file larger
\* than its original does not lower it, skipped and failed calls add 0.
C3_TotalIsClampedSum ==
    pc_main = "done" => total_space_saved = ClampedSaving(Ended("converted"))

\* C3's case: a run that converted a file that shrank and one that grew.
C3_Witness ==
    /\ pc_main = "done"
    /\ total_space_saved > 0
    /\ \E p \in Ended("converted") : tasks[p].ret < 0
    /\ \E p \in Ended("converted") : tasks[p].ret > 0

\* The files of the tree the transcoder cannot read.
Corrupt == {p \in Found : ~fs0[p].decodable}

\* C4: in a tree of N supported files of which k cannot be read by the
\* transcoder and the others convert, the batch reports N - k conversions,
\* and each of the k returns 0, sends one error notification and leaves its
\* source as it was.
C4_CorruptSourcesIsolated ==
    ( /\ pc_main = "done"
      /\ Corrupt # {}
      /\ \A p \in Found : Lower(p.ext) \in SUPPORTED_EXTENSIONS
      /\ \A p \in Found \ Corrupt : tasks[p].end = "converted" )
    => /\ converted_count = Cardinality(Found) - Cardinality(Corrupt)
       /\ \A p \in Corrupt : /\ tasks[p].end = "failed"
                             /\ tasks[p].ret = 0
                             /\ tasks[p].errors = 1
                             /\ fs[p] = fs0[p]

\* An .mp3 that is already at the desired bitrate.
Compliant(p, f) ==
    /\ f.exists
    /\ Lower(p.ext) = ".mp3"
    /\ get_mp3_bitrate(f) = Some(desired_bitrate)

\* C5: a run leaves every .mp3 that is at the desired bitrate as it found it:
\* the same bytes (audio and tags), owner, group and permission bits,
\* whatever its tags and name are.
C5_CompliantUntouched ==
    \A p \in AllPaths : Compliant(p, fs0[p]) => fs[p] = fs0[p]

\* C6: an .mp3 whose bitrate reads as a value below the desired one (0 up to
\* desired - 1) is never given to the transcoder, and its call returns 0.
C6_NeverUpsample ==
    \A p \in AllPaths :
       ( /\ Started(p)
         /\ Lower(p.ext) = ".mp3"
         /\ ~tasks[p].bitrate.none
         /\ tasks[p].bitrate.val < desired_bitrate )
       => /\ ~tasks[p].invoked
          /\ tasks[p].status = "returned"
          /\ tasks[p].end = "skipped"
          /\ tasks[p].ret = 0

\* C7: in a run after the one that converted a file, the call on the .mp3
\* that conversion produced does not call the transcoder and returns 0.
C7_RoundTripSkips ==
    \A p \in AllPaths :
       (pass > 1 /\ Started(p) /\ tasks[p].seen.committed)
       => /\ ~tasks[p].invoked
          /\ tasks[p].status = "returned"
          /\ tasks[p].end = "skipped"
          /\ tasks[p].ret = 0

\* C8: the source is deleted last, after the move, the chmod and the chown,
\* so that at every point of a call's commit, and after the commit has ended
\* by returning or by a failed step, a copy of the audio it converts is at
\* the source path or at the new path.
C8_CopyAtEveryPoint ==
    \A p \in AllPaths :
       /\ (Converting(p) /\ tasks[p].pc \in {"move", "chmod", "chown", "remove"})
            => fs[p].exists /\ CopyKept(fs, p, tasks[p].audio)
       /\ tasks[p].status = "returned" => tasks[p].copy_kept

\* The paths a call inside convert_to_mp3 reads or writes: its source (read,
\* then removed) and the path it moves its artifact to.
Accessed(p) == {p, NewPath(p)}

\* C9: no path is read or written by two calls that run at the same time.
C9_NoTwoWorkersOnAPath ==
    \A p, q \in AllPaths :
       (p # q /\ Converting(p) /\ Converting(q))
       => Accessed(p) \cap Accessed(q) = {}

\* C10: the summary is computed only after every call has ended, and every
\* file found enters the reduction once: the list of results holds each
\* file's return value, in the walk's order, and the count and the total are
\* those of the files' return values.
C10_CompleteFanIn ==
    pc_main \in {"exit", "reduce", "done"}
    => /\ \A p \in Found : tasks[p].status = "returned"
       /\ Len(files_to_process) = Cardinality(Found)
       /\ {files_to_process[i] : i \in 1..Len(files_to_process)} = Found
       /\ Len(results) = Len(files_to_process)
       /\ \A i \in 1..Len(results) : results[i] = Future(i).ret
       /\ pc_main = "done" =>
            /\ converted_count = Cardinality({p \in Found : tasks[p].ret > 0})
            /\ total_space_saved = PositiveReturns(Found)

\* C10's case: a run of two conversions that both saved space.
C10_Witness ==
    /\ pc_main = "done"
    /\ Cardinality(Ended("converted")) = 2
    /\ converted_count = 2
    /\ total_space_saved = 3

\* A source whose audio can be decoded and whose tags mutagen cannot read.
Unreadable(f) == f.exists /\ f.decodable /\ SourceTags(f) = "raise"

\* The steps of convert_to_mp3 other than the metadata block.
OtherSteps == {"load", "export", "move", "chmod", "chown", "remove"}

\* The call on p came back from convert_to_mp3 and none of the steps around
\* the metadata block raised.
PastMetadata(p) ==
    /\ tasks[p].status = "returned"
    /\ tasks[p].invoked
    /\ tasks[p].failed_at \notin OtherSteps

\* The file at p's new path is the one the call on p produced.
OwnOutput(p) ==
    /\ fs[NewPath(p)].exists
    /\ fs[NewPath(p)].enc
    /\ fs[NewPath(p)].audio = tasks[p].audio

\* C11: a file whose tags cannot be read and whose name is "Artist - Title"
\* ends, after its conversion, as a committed .mp3 with artist = the text
\* before the first " - " and title = the text after it.
C11_RecoveredFromName ==
    \A p \in AllPaths :
       (PastMetadata(p) /\ Unreadable(tasks[p].seen) /\ HasSep(p.stem))
       => /\ tasks[p].end = "converted"
          /\ OwnOutput(p) =>
               /\ fs[NewPath(p)].artist = SplitName(p.stem).artist
               /\ fs[NewPath(p)].title = SplitName(p.stem).title

\* The call on p is in, or has ended, the commit of convert_to_mp3.
InCommit(p) ==
    \/ (tasks[p].status = "running" /\ tasks[p].pc \in {"move", "chmod", "chown", "remove"})
    \/ tasks[p].end = "converted"

C13_OutcomeNonNegative ==
    \A p \in AllPaths :
       tasks[p].status = "returned"
       => /\ tasks[p].ret >= 0
          /\ tasks[p].end = "converted" =>
               tasks[p].ret = Max0(tasks[p].original_size - tasks[p].new_size)
          /\ tasks[p].end \in {"skipped", "failed"} => tasks[p].ret = 0

\* The step in which the call on p ends Converted.
EndsConverted(p) == tasks[p].end # "converted" /\ tasks'[p].end = "converted"

\* C14: whenever a call ends Converted, the file at its new path has the
\* owner, the group and the permission bits its source had when the call
\* found it.
C14_OwnershipPreserved ==
    [][\A p \in AllPaths :
          EndsConverted(p)
          => /\ fs'[NewPath(p)].exists
             /\ fs'[NewPath(p)].uid = tasks'[p].seen.uid
             /\ fs'[NewPath(p)].gid = tasks'[p].seen.gid
             /\ fs'[NewPath(p)].mode = tasks'[p].seen.mode]_vars

\* The call on p sends a message of the kind counted by field in this step.
Sends(p, field) == tasks'[p][field] > tasks[p][field]

\* The call on p has sent a message.
HasSent(p) ==
    tasks[p].errors + tasks[p].estimated + tasks[p].not_estimated > 0

\* C15: a failed send is only logged.  Each send draws the webhook's answer
\* from 200, another status and an exception, and whatever it was: no call
\* that sent a message has raised; a call that sent the error message has
\* ended Failed with 0, for the step of convert_to_mp3 that raised; a run is
\* aborted only by a call that raised before it sent anything; and a run
\* that sent the summary has counted it, computed the count and the total of
\* the results and printed the final line.
C15_SendFailureIsLogOnly ==
    /\ \A p \in AllPaths :
          /\ HasSent(p) => tasks[p].status \in {"running", "returned"}
          /\ tasks[p].errors <= 1
          /\ tasks[p].errors = 1 <=> tasks[p].end = "failed"
          /\ tasks[p].end = "failed"
             => /\ tasks[p].status = "returned"
                /\ tasks[p].ret = 0
                /\ tasks[p].failed_at \in OtherSteps \cup {"metadata"}
    /\ pc_main \in {"shutdown", "aborted"}
       => \E p \in Found : tasks[p].status = "raised" /\ ~HasSent(p)
    /\ pc_main = "done"
       => /\ converted_count = Cardinality({p \in Found : tasks[p].ret > 0})
          /\ total_space_saved = PositiveReturns(Found)
          /\ summaries = (IF converted_count > 0 THEN 1 ELSE 0)
          /\ summary_answer \in (IF converted_count > 0 THEN SendResults ELSE {"-"})
          /\ final_lines = 1

\* C15's case: a run that ended with its summary counted although the
\* request raised, after a call that sent an error message.
C15_Witness ==
    /\ pc_main = "done"
    /\ summary_answer = "raise"
    /\ summaries = 1
    /\ final_lines = 1
    /\ converted_count = 1
    /\ \E p \in Found : tasks[p].end = "failed" /\ tasks[p].errors = 1

\* C16: the metadata block never fails the call: whichever tag operation
\* raises, a call whose load and export worked goes on to the commit and
\* sends no "Error converting" message for it.
C16_MetadataNeverFailsTask ==
    \A p \in AllPaths :
       /\ tasks[p].failed_at # "metadata"
       /\ PastMetadata(p) => (tasks[p].end = "converted" /\ tasks[p].errors = 0)

\* Every field that is non-empty in `before` has the same value in `after`.
Kept(before, after) ==
    /\ before.artist # <<>> => after.artist = before.artist
    /\ before.title # <<>> => after.title = before.title

\* C17: a recovery from the file name never replaces a value: in the step of
\* the .mp3 pre-check and in the step of convert_to_mp3's metadata block, when
\* tags are written from the name, an artist or title that the file had keeps
\* its value in the file the step leaves (the .mp3 itself, the artifact).
C17_RecoveryKeepsValues ==
    [][\A p \in AllPaths :
          /\ (tasks[p].status = "queued" /\ Sends(p, "estimated"))
               => Kept(fs[p], fs'[p])
          /\ (Task(p, "transcode") /\ Sends(p, "estimated"))
               => Kept(fs[p], tasks'[p].temp)]_vars

\* C18: an .mp3 whose bitrate cannot be read is given to the transcoder: its
\* call is not skipped and does not raise out of process_file.
C18_UnreadableMp3Reencoded ==
    \A p \in AllPaths :
       (Started(p) /\ Lower(p.ext) = ".mp3" /\ tasks[p].bitrate.none)
       => /\ tasks[p].status # "raised"
          /\ tasks[p].end # "skipped"
          /\ tasks[p].invoked \/ Task(p, "transcode")

\* The run of process_directory has ended, by its return or by an exception.
RunEnded == pc_main \in {"done", "aborted"}

\* C19: every run sends the summary once if its converted count is above 0
\* and not at all otherwise, sends it only after every call has ended, and
\* prints the final line in both cases.
C19_SummaryOncePerRun ==
    /\ RunEnded => /\ summaries = (IF converted_count > 0 THEN 1 ELSE 0)
                   /\ final_lines = 1
    /\ ~RunEnded => (summaries = 0 /\ final_lines = 0)
    /\ summaries > 0 => \A p \in Found : tasks[p].status = "returned"

\* C20: a call that ended Failed has left no scratch file behind.
C20_NoScratchAfterFailure ==
    \A p \in AllPaths :
       (tasks[p].status = "returned" /\ tasks[p].end = "failed")
       => ~tasks[p].temp.exists

====
